---- MODULE Spec2Model ----
(***************************************************************************)
(* HomeGuard: the local durable buffer (SQLite) and the cloud replication  *)
(* cycle (NEON PostgreSQL) of src/src/db_logger.py, class DatabaseLogger.  *)
(*                                                                         *)
(* Durable state: the SQLite tables sensor_data and sync_state, SQLite's   *)
(* AUTOINCREMENT counter, and the remote table.  Volatile state: the       *)
(* DatabaseLogger object and the locals of a running sync_to_cloud call.   *)
(* A process crash drops the volatile state and both open transactions.    *)
(***************************************************************************)
EXTENDS Integers, Sequences, FiniteSets, TLC

\* ---------------------------------------------------------------- bounds
MaxRecords == 3          \* appends per behaviour
MaxTime == 2             \* wall-clock readings 1..MaxTime (one per day)
MaxHorizon == 1          \* retention horizons 0..MaxHorizon (days)
MaxBulk == 101           \* appends per behaviour of the offline backlog run
MaxStoreRows == 2        \* rows of a local database that exists at start
MaxClock == 8            \* clock steps per behaviour of the motion handling
MaxLogs == 3             \* motion rows of the date a dashboard query returns

\* ------------------------------------------------------ program constants
BatchLimit == 100        \* LIMIT 100 of the pending fetch
SyncInterval == 120      \* seconds between two periodic sync checks
ReadInterval == 5        \* seconds between two temperature readings
motion_debounce == 2     \* seconds, main.py
debounce_ms == 1500      \* milliseconds, PIRWatcher's default
MAX_LENGTH == 32         \* characters of an LCD text, app.py

\* readings of datetime.utcnow(): the wall clock is not monotonic, so any
\* reading may follow any other and two records may carry the same ts_iso
Times == 1..MaxTime
Horizons == 0..MaxHorizon

\* timestamps of the rows of a database that exists at start: days of the
\* current month, and days before its first day (0 and below)
StoreTimes == (0 - MaxHorizon)..MaxTime

\* limits of the pending fetch that are tried
FetchLimits == 0..(MaxStoreRows + 1) \cup {BatchLimit}

VARIABLES
    sensor_data,       \* committed rows of the local table: id -> [ts, synced]
    sqlite_sequence,   \* AUTOINCREMENT counter: largest rowid ever assigned
    sync_state,        \* committed sync_state row 'last_synced_id': << >> or <<v>>
    last_synced_id,    \* DatabaseLogger.last_synced_id (in memory)
    neon_conn_string,  \* TRUE when a remote connection string is configured
    mqtt_connected,    \* main.py's flag: the MQTT broker connection is up
    timer,             \* main.py's clock readings, in seconds: [since_check,
                       \* since_start, retries, delay] (see CycleStarted)
    neon_rows,         \* committed remote rows: ts_iso -> number of visible rows
    neon_tx,           \* rows inserted by the open remote transaction
    online,            \* the remote store is reachable
    pc,                \* position of the single thread inside the logger
    unsynced,          \* sync_to_cloud local: the fetched batch, << [id, ts] >>
    idx,               \* sync_to_cloud local: position of the for loop
    synced_ids,        \* sync_to_cloud local
    synced_count,      \* sync_to_cloud local
    local_tx,          \* ids updated by local_conn's open (uncommitted) transaction
    local_lock,        \* local_conn holds SQLite's write (RESERVED) lock
    sync_call,         \* the running sync_to_cloud call: << >> when none, else
                       \* << [by, table, state, cursor] >>, its caller and
                       \* the local state it was entered with
    last_op,           \* what the last finished step did (observation only)
    \* history variables: they record the past and steer nothing
    assigned,          \* every local id ever returned by an INSERT
    offline_ids,       \* ids appended since the remote store was last reachable
    crash_batch,       \* batch committed remotely whose marking a crash cut off
    mark_ids,          \* ids of the last mark-synced step that was begun
    mark_cursor,       \* persisted cursor when that step began
    last_fetch,        \* the last pending fetch of sync_to_cloud by this
                       \* process with no committed mark-synced step since:
                       \* << >> when none, else << [rows, seq, again, grown] >>
    batch_floor,       \* largest of the smallest ids of the batches fetched
                       \* by the sync cycles so far, 0 when none
    \* main.py's motion handling and sensors.py's PIRWatcher
    system_mode,       \* main.py global: "ARMED" or "DISARMED"
    main_pc,           \* main loop: "poll", "decided" (the test of line 370
                       \* was true), "alarm" (the intrusion sequence runs)
    motion_pin,        \* GPIO.input(MOTION_PIN) == GPIO.HIGH
    clock,             \* time.time(), in milliseconds
    last_motion_time,  \* main.py global, in milliseconds
    pir_last,          \* PIRWatcher._last, in milliseconds
    last_test,         \* what the main loop's last test of line 370 read
    true_at,           \* history: per function, the times of its last two
                       \* True results, oldest first
    \* the dashboard, src/app.py
    raw_logs,          \* fetch_motion_logs_by_date local: the rows fetched
    log_i,             \* position of its filter loop in raw_logs
    filtered_logs,     \* fetch_motion_logs_by_date local
    last_reported_time, \* fetch_motion_logs_by_date local, None at first
    logs_pc,           \* "idle", "filter" (in the loop) or "returned"
    logs_result,       \* << >>, else << [logs, error] >>: what the last
                       \* call returned
    reported,          \* history: positions of raw_logs the loop reported
    aio_credentials,   \* AIO_USERNAME / AIO_KEY as loaded at import
    ctl_request,       \* << >>, else << [device, value, outcome] >>: the
                       \* last request device_control_api handled
    ctl_response,      \* << >>, else << [status, json, success] >>
    posted             \* commands that request posted to Adafruit IO

motion_vars == << system_mode, main_pc, motion_pin, clock, last_motion_time,
                 pir_last, last_test, true_at >>

logs_vars == << raw_logs, log_i, filtered_logs, last_reported_time, logs_pc,
               logs_result, reported >>

control_vars == << aio_credentials, ctl_request, ctl_response, posted >>

app_vars == << logs_vars, control_vars >>

other_vars == << motion_vars, app_vars >>

model_vars == << sensor_data, sqlite_sequence, sync_state, last_synced_id,
                 neon_conn_string, mqtt_connected, timer, other_vars, neon_rows, neon_tx, online, pc, unsynced,
                 idx, synced_ids, synced_count, local_tx, local_lock >>

hist_vars == << sync_call, last_op, assigned, offline_ids, crash_batch,
                mark_ids, mark_cursor, last_fetch, batch_floor >>

vars == << model_vars, hist_vars >>

\* --------------------------------------------------------------- helpers
SetMax(S) == CHOOSE m \in S : \A x \in S : x <= m

SetMin(S) == CHOOSE m \in S : \A x \in S : m <= x

SeqSet(s) == { s[i] : i \in 1..Len(s) }

NoRows == [t \in Times |-> 0]

\* the largest rowid in the table, 0 for an empty table
MaxRowId(table) == IF DOMAIN table = {} THEN 0 ELSE SetMax(DOMAIN table)

\* WHERE synced = 0
PendingIds(table) == { id \in DOMAIN table : table[id].synced = 0 }

\* mutant: the fetch selects by the in-memory cursor, WHERE id > last_synced_id
FetchPending_ByCursor(table, limit) ==
    LET ordered == SelectSeq([ i \in 1..MaxRowId(table) |-> i ],
                             LAMBDA i : /\ i \in DOMAIN table
                                        /\ i > last_synced_id)
        n == IF Len(ordered) < limit THEN Len(ordered) ELSE limit
    IN  [ i \in 1..n |-> [id |-> ordered[i], ts |-> table[ordered[i]].ts] ]

\* mutant: the fetch returns the newest records first, ORDER BY id DESC
FetchPending_NewestFirst(table, limit) ==
    LET top == MaxRowId(table)
        ordered == SelectSeq([ i \in 1..top |-> top + 1 - i ],
                             LAMBDA i : /\ i \in DOMAIN table
                                        /\ table[i].synced = 0)
        n == IF Len(ordered) < limit THEN Len(ordered) ELSE limit
    IN  [ i \in 1..n |-> [id |-> ordered[i], ts |-> table[ordered[i]].ts] ]

\* SELECT id, ts_iso, ... WHERE synced = 0 ORDER BY id ASC LIMIT limit
FetchPending(table, limit) ==
    LET ordered == SelectSeq([ i \in 1..MaxRowId(table) |-> i ],
                             LAMBDA i : /\ i \in DOMAIN table
                                        /\ table[i].synced = 0)
        n == IF Len(ordered) < limit THEN Len(ordered) ELSE limit
    IN  [ i \in 1..n |-> [id |-> ordered[i], ts |-> table[ordered[i]].ts] ]

FetchedIds(batch) == { batch[i].id : i \in 1..Len(batch) }

\* SELECT COUNT(*) FROM sensor_data WHERE synced = 0
UnsyncedCount == Cardinality(PendingIds(sensor_data))

\* SELECT value FROM sync_state WHERE key = 'last_synced_id' (0 when absent)
PersistedCursor == IF sync_state = << >> THEN 0 ELSE sync_state[1]

\* INTEGER PRIMARY KEY AUTOINCREMENT: one more than the largest rowid that
\* was ever in the table
NextRowId(table, seq) ==
    (IF MaxRowId(table) > seq THEN MaxRowId(table) ELSE seq) + 1

\* mutant: the tables are dropped and created again at every start
InitLocalDb_Recreate(db) == [table |-> << >>, seq |-> 0]

\* _init_local_db: CREATE TABLE IF NOT EXISTS keeps an existing table, its
\* rows and its AUTOINCREMENT counter
InitLocalDb(db) == db

\* the remote table's natural key (ts_iso) is unique, also against the rows
\* of the open transaction
NeonUniqueViolation(key) == neon_rows[key] + neon_tx[key] > 0

\* a second connection cannot write while local_conn's transaction is open
DatabaseLocked == local_lock

\* mutant: the DELETE has no synced = 1 condition
Doomed_AnyState(table, cutoff) ==
    { id \in DOMAIN table : table[id].ts < cutoff }

\* DELETE FROM sensor_data WHERE synced = 1 AND ts_iso < cutoff
Doomed(table, cutoff) ==
    { id \in DOMAIN table : table[id].synced = 1 /\ table[id].ts < cutoff }

\* cutoff_date.replace(day = cutoff_date.day - days) raises ValueError when
\* the day of the month would fall below 1
CutoffValid(now, days) == now - days >= 1

\* the locals of sync_to_cloud and both connections are gone
SyncLocalsReset ==
    /\ unsynced' = << >>
    /\ idx' = 0
    /\ synced_ids' = << >>
    /\ synced_count' = 0
    /\ neon_tx' = NoRows
    /\ local_tx' = {}
    /\ local_lock' = FALSE
    /\ sync_call' = << >>

\* the record of a pending fetch of sync_to_cloud: its rows, the
\* AUTOINCREMENT counter it ran at, whether an earlier fetch is on record
\* and whether a record was appended since that one
Fetched(batch) ==
    [rows |-> batch, seq |-> sqlite_sequence,
     again |-> last_fetch # << >>,
     grown |-> last_fetch # << >> /\ last_fetch[1].seq # sqlite_sequence]

\* the floor under the batches once batch has been fetched
BatchFloor(batch) ==
    IF batch = << >> THEN batch_floor
    ELSE LET low == SetMin(FetchedIds(batch))
         IN  IF low > batch_floor THEN low ELSE batch_floor

\* the call of sync_to_cloud is entered by the caller by over the local
\* table, whose other state is as it stands
SyncCalled(by, table) ==
    sync_call' = << [by |-> by, table |-> table, state |-> sync_state,
                     cursor |-> last_synced_id] >>

\* the clock readings when the main loop is entered: last_sync_check = 0,
\* so the first periodic check is due at once
TimerInit ==
    [since_check |-> SyncInterval + 1, since_start |-> 0, retries |-> 0,
     delay |-> 0]

\* the clock readings are kept up to the values the loop can tell apart
Elapsed(s, d, cap) == IF s + d > cap THEN cap ELSE s + d

\* a sync cycle is started: when the cycle before it failed this one is a
\* retry, the retries in a row are counted (up to two) and delay is the
\* time since the failed cycle was started
CycleStarted ==
    IF last_op.op = "sync_failed"
    THEN [timer EXCEPT !.since_start = 0,
                       !.retries = IF @ >= 2 THEN 2 ELSE @ + 1,
                       !.delay = timer.since_start]
    ELSE [timer EXCEPT !.since_start = 0, !.retries = 0, !.delay = 0]

\* the clock advances in steps of half a second
ClockStep == debounce_ms \div 3

\* the first clock reading of a behaviour: time.time() is far above both
\* debounce intervals when the process starts
StartTime == motion_debounce * 1000 + ClockStep

ClockReadings == { StartTime + k * ClockStep : k \in 0..MaxClock }

Functions == {"check_motion", "PIRWatcher.motion"}

\* mutant: a second True is let through when exactly the debounce interval
\* has passed
Debounced_Inclusive(current, last, debounce) == current - last >= debounce

\* the test both debounce functions make: current_time - last > debounce
Debounced(current, last, debounce) == current - last > debounce

\* the times of the last two True results once one at time t is added
Remember(times, t) ==
    IF Len(times) < 2 THEN Append(times, t) ELSE << times[2], t >>

\* main.py's globals at start, a PIRWatcher as constructed, the pin LOW
MotionInit ==
    /\ system_mode = "DISARMED"
    /\ main_pc = "poll"
    /\ motion_pin = FALSE
    /\ clock = StartTime
    /\ last_motion_time = 0
    /\ pir_last = 0
    /\ last_test = [motion |-> FALSE, mode |-> "unread"]
    /\ true_at = [fn \in Functions |-> << >>]


\* ------------------------------------------------- the dashboard, app.py
\* datetime values are counted in half seconds from the start of the date
TicksPerSecond == 2

\* MIN_INTERVAL = timedelta(minutes=2)
MIN_INTERVAL == 2 * 60 * TicksPerSecond

\* the ts_iso values tried: around the start, one interval and two
\* intervals later
LogTimes == { k * MIN_INTERVAL + d : k \in 0..2, d \in {-1, 0, 1} } \ {-1}

\* ORDER BY ts_iso ASC
Ascending(rows) == \A i \in 1..(Len(rows) - 1) : rows[i] <= rows[i + 1]

\* what the query can return for a date: its motion rows, oldest first
QueryResults ==
    { rows \in UNION { [1..n -> LogTimes] : n \in 0..MaxLogs } :
        Ascending(rows) }

\* ts.strftime('%Y-%m-%d %H:%M:%S'): the time to the second, fraction dropped
strftime(ts) == ts \div TicksPerSecond

None == -1

\* mutant: a row exactly one interval after the last reported one is dropped
PastInterval_Strict(current_time, last) == current_time - last > MIN_INTERVAL

\* line 249: (current_time - last_reported_time) >= MIN_INTERVAL
PastInterval(current_time, last) == current_time - last >= MIN_INTERVAL

\* list[::-1]
Reversed(list) == [i \in 1..Len(list) |-> list[Len(list) + 1 - i]]

\* FEEDS
FEEDS ==
    [temperature |-> "temperature", humidity |-> "humidity",
     motion |-> "motion", ctrl_light |-> "led-status",
     ctrl_lcd_text |-> "lcd-message", ctrl_mode |-> "system-mode",
     ctrl_buzzer |-> "buzzer", ctrl_camera |-> "camera-image"]

\* FEEDS.get(key): the empty string stands for None, both are falsy
FeedsGet(key) == IF key \in DOMAIN FEEDS THEN FEEDS[key] ELSE ""

\* the <device> parts of the URL that are tried
Devices == {"light", "lcd_text", "mode", "buzzer", "camera", "temperature"}

\* a text of n letters
Text(n) == [i \in 1..n |-> "x"]

\* the strings tried as "value": sequences of characters
Texts ==
    { << >>, << "o", "n" >>, << "O", "N" >>, << "o", "f", "f" >>,
      << " ", "o", "n", " " >>,
      Text(MAX_LENGTH), Text(MAX_LENGTH + 1),
      Text(MAX_LENGTH) \o << " " >>, << " " >> \o Text(MAX_LENGTH + 1) }

\* the "value" member of the JSON body: a string, a number, or no member
JsonValues ==
    { [type |-> "absent"], [type |-> "number"] }
        \cup { [type |-> "string", chars |-> c] : c \in Texts }

\* how requests.post and raise_for_status end
PostOutcomes == {"ok", "http_error", "request_exception"}

Credentials == {"configured", "placeholder"}

RECURSIVE lstrip(_)
lstrip(str) ==
    IF str # << >> /\ Head(str) = " " THEN lstrip(Tail(str)) ELSE str

\* str.strip()
strip(str) == Reversed(lstrip(Reversed(lstrip(str))))

upper(str) ==
    [i \in 1..Len(str) |->
        CASE str[i] = "o" -> "O" [] str[i] = "n" -> "N" [] str[i] = "f" -> "F"
          [] str[i] = "x" -> "X" [] OTHER -> str[i]]

lower(str) ==
    [i \in 1..Len(str) |->
        CASE str[i] = "O" -> "o" [] str[i] = "N" -> "n" [] str[i] = "F" -> "f"
          [] str[i] = "X" -> "x" [] OTHER -> str[i]]

\* the dashboard process as started, no request handled yet
AppInit ==
    /\ raw_logs = << >>
    /\ log_i = 1
    /\ filtered_logs = << >>
    /\ last_reported_time = None
    /\ logs_pc = "idle"
    /\ logs_result = << >>
    /\ reported = {}
    /\ aio_credentials = "configured"
    /\ ctl_request = << >>
    /\ ctl_response = << >>
    /\ posted = << >>

\* ------------------------------------------------------------------ Init
Init ==
    /\ sensor_data = << >>
    /\ sqlite_sequence = 0
    /\ sync_state = << >>
    /\ last_synced_id = 0
    /\ neon_conn_string \in BOOLEAN
    /\ mqtt_connected = TRUE
    /\ timer = TimerInit
    /\ MotionInit
    /\ AppInit
    /\ neon_rows = NoRows
    /\ neon_tx = NoRows
    /\ online \in BOOLEAN
    /\ pc = "idle"
    /\ unsynced = << >>
    /\ idx = 0
    /\ synced_ids = << >>
    /\ synced_count = 0
    /\ local_tx = {}
    /\ local_lock = FALSE
    /\ sync_call = << >>
    /\ last_op = [op |-> "init"]
    /\ assigned = {}
    /\ offline_ids = {}
    /\ crash_batch = {}
    /\ mark_ids = {}
    /\ mark_cursor = 0
    /\ last_fetch = << >>
    /\ batch_floor = 0

\* --------------------------------------------------------------- actions
\* log_sensor_data up to its call of sync_to_cloud: INSERT ... synced = 0
\* with the wall-clock reading t, commit
AppendRowCall(t, bound) ==
    /\ pc = "idle"
    /\ sqlite_sequence < bound
    /\ LET id == NextRowId(sensor_data, sqlite_sequence)
       IN  /\ sensor_data' = [ i \in DOMAIN sensor_data \cup {id} |->
                                 IF i = id THEN [ts |-> t, synced |-> 0]
                                 ELSE sensor_data[i] ]
           /\ sqlite_sequence' = id
           /\ last_op' = [op |-> "append", id |-> id, after |-> assigned,
                          restarted |-> last_op.op = "restart",
                          after_failure |-> last_op.op = "append_failed"]
           /\ assigned' = assigned \cup {id}
           /\ offline_ids' = IF online THEN offline_ids
                             ELSE offline_ids \cup {id}
           /\ SyncCalled("log_sensor_data", sensor_data')
    /\ pc' = "sync"
    /\ UNCHANGED << sync_state, last_synced_id, neon_conn_string,
                    mqtt_connected, other_vars, neon_rows, neon_tx, online, unsynced,
                    idx, synced_ids, synced_count, local_tx, local_lock >>
    /\ UNCHANGED << crash_batch, mark_ids, mark_cursor, last_fetch,
                    batch_floor >>

AppendRow(t, bound) == AppendRowCall(t, bound) /\ UNCHANGED timer

log_sensor_data(t) == AppendRow(t, MaxRecords)

\* mutant: the row of a failed append stays in the table
AppendFails_KeepsRow ==
    /\ pc = "idle"
    /\ LET id == NextRowId(sensor_data, sqlite_sequence)
       IN  /\ sensor_data' = [ i \in DOMAIN sensor_data \cup {id} |->
                                 IF i = id THEN [ts |-> 1, synced |-> 0]
                                 ELSE sensor_data[i] ]
           /\ sqlite_sequence' = id
    /\ last_op' = [op |-> "append_failed"]
    /\ UNCHANGED << sync_state, last_synced_id, neon_conn_string, mqtt_connected, timer, other_vars, neon_rows,
                    neon_tx, online, pc, unsynced, idx, synced_ids,
                    synced_count, local_tx, local_lock, sync_call >>
    /\ UNCHANGED << assigned, offline_ids, crash_batch, mark_ids,
                    mark_cursor, last_fetch, batch_floor >>

\* log_sensor_data when the local connect, INSERT or commit raises (disk
\* full, file not writable): the handler prints the error and returns None;
\* the open transaction is dropped and sync_to_cloud is not called
AppendFails ==
    /\ pc = "idle"
    /\ last_op' = [op |-> "append_failed"]
    /\ UNCHANGED << model_vars, sync_call, assigned, offline_ids, crash_batch,
                    mark_ids, mark_cursor, last_fetch, batch_floor >>

\* the main loop's periodic check and the final sync at shutdown
PeriodicSyncCall ==
    /\ pc = "idle"
    /\ pc' = "sync"
    /\ last_op' = [op |-> "sync_called"]
    /\ SyncCalled("main", sensor_data)
    /\ UNCHANGED << sensor_data, sqlite_sequence, sync_state, last_synced_id,
                    neon_conn_string, mqtt_connected, other_vars, neon_rows, neon_tx, online, unsynced,
                    idx, synced_ids, synced_count, local_tx, local_lock >>
    /\ UNCHANGED << assigned, offline_ids, crash_batch, mark_ids,
                    mark_cursor, last_fetch, batch_floor >>

PeriodicSync == PeriodicSyncCall /\ UNCHANGED timer

\* sync_to_cloud fails as a whole: the handlers return 0 and the finally
\* block closes both connections, which drops their open transactions
SyncFails(why) ==
    /\ pc' = "idle"
    /\ SyncLocalsReset
    /\ last_op' = [op |-> "sync_failed", why |-> why, at |-> pc]

\* sync_to_cloud returns 0 before it contacts the remote store
SyncReturnsEarly ==
    /\ pc' = "idle"
    /\ SyncLocalsReset
    /\ last_op' = [op |-> "sync_returned", count |-> 0]

\* sync_to_cloud up to the remote connect
SyncBegin ==
    /\ pc = "sync"
    /\ IF ~neon_conn_string
       THEN SyncReturnsEarly /\ UNCHANGED << last_fetch, batch_floor >>
       ELSE LET batch == FetchPending(sensor_data, BatchLimit)
            IN  /\ last_fetch' = << Fetched(batch) >>
                /\ batch_floor' = BatchFloor(batch)
                /\ IF batch = << >>
                   THEN SyncReturnsEarly
                   ELSE IF ~online
                   THEN SyncFails("offline")
                   ELSE /\ pc' = "insert"
                        /\ unsynced' = batch
                        /\ idx' = 1
                        /\ synced_ids' = << >>
                        /\ synced_count' = 0
                        /\ neon_tx' = NoRows
                        /\ local_tx' = {}
                        /\ local_lock' = FALSE
                        /\ last_op' = [op |-> "fetched"]
                        /\ UNCHANGED sync_call
    /\ UNCHANGED << sensor_data, sqlite_sequence, sync_state, last_synced_id,
                    neon_conn_string, mqtt_connected, timer, other_vars, neon_rows, online >>
    /\ UNCHANGED << assigned, offline_ids, crash_batch, mark_ids,
                    mark_cursor >>

\* mutant: the in-memory cursor is advanced inside the for loop, record by
\* record
InsertRecord_AdvancesCursor ==
    /\ pc = "insert"
    /\ IF ~online
       THEN SyncFails("offline") /\ UNCHANGED last_synced_id
       ELSE LET rec == unsynced[idx]
            IN  /\ IF NeonUniqueViolation(rec.ts)
                   THEN /\ neon_tx' = NoRows
                        /\ synced_count' = synced_count
                        /\ last_op' = [op |-> "duplicate", id |-> rec.id]
                   ELSE /\ neon_tx' = [neon_tx EXCEPT ![rec.ts] = @ + 1]
                        /\ synced_count' = synced_count + 1
                        /\ last_op' = [op |-> "inserted", id |-> rec.id]
                /\ synced_ids' = Append(synced_ids, rec.id)
                /\ last_synced_id' = rec.id
                /\ idx' = idx + 1
                /\ pc' = IF idx = Len(unsynced) THEN "commit" ELSE "insert"
                /\ UNCHANGED << unsynced, local_tx, local_lock, sync_call >>
    /\ UNCHANGED << sensor_data, sqlite_sequence, sync_state,
                    neon_conn_string, mqtt_connected, timer, other_vars, neon_rows, online >>
    /\ UNCHANGED << assigned, offline_ids, crash_batch, mark_ids,
                    mark_cursor, last_fetch, batch_floor >>

\* mutant: the INSERT never raises IntegrityError, every record sent adds a
\* row
InsertRecord_NoConflict ==
    /\ pc = "insert"
    /\ IF ~online
       THEN SyncFails("offline")
       ELSE LET rec == unsynced[idx]
            IN  /\ neon_tx' = [neon_tx EXCEPT ![rec.ts] = @ + 1]
                /\ synced_count' = synced_count + 1
                /\ last_op' = [op |-> "inserted", id |-> rec.id]
                /\ synced_ids' = Append(synced_ids, rec.id)
                /\ idx' = idx + 1
                /\ pc' = IF idx = Len(unsynced) THEN "commit" ELSE "insert"
                /\ UNCHANGED << unsynced, local_tx, local_lock, sync_call >>
    /\ UNCHANGED << sensor_data, sqlite_sequence, sync_state, last_synced_id,
                    neon_conn_string, mqtt_connected, timer, other_vars, neon_rows, online >>
    /\ UNCHANGED << assigned, offline_ids, crash_batch, mark_ids,
                    mark_cursor, last_fetch, batch_floor >>

\* one iteration of the for loop: INSERT, or IntegrityError and rollback
InsertRecord ==
    /\ pc = "insert"
    /\ IF ~online
       THEN SyncFails("offline")
       ELSE LET rec == unsynced[idx]
            IN  /\ IF NeonUniqueViolation(rec.ts)
                   THEN /\ neon_tx' = NoRows
                        /\ synced_count' = synced_count
                        /\ last_op' = [op |-> "duplicate", id |-> rec.id]
                   ELSE /\ neon_tx' = [neon_tx EXCEPT ![rec.ts] = @ + 1]
                        /\ synced_count' = synced_count + 1
                        /\ last_op' = [op |-> "inserted", id |-> rec.id]
                /\ synced_ids' = Append(synced_ids, rec.id)
                /\ idx' = idx + 1
                /\ pc' = IF idx = Len(unsynced) THEN "commit" ELSE "insert"
                /\ UNCHANGED << unsynced, local_tx, local_lock, sync_call >>
    /\ UNCHANGED << sensor_data, sqlite_sequence, sync_state, last_synced_id,
                    neon_conn_string, mqtt_connected, timer, other_vars, neon_rows, online >>
    /\ UNCHANGED << assigned, offline_ids, crash_batch, mark_ids,
                    mark_cursor, last_fetch, batch_floor >>

\* the INSERT raises an error that is neither IntegrityError nor a lost
\* connection (the remote store rejects the record's data): the handler of
\* the for loop does not catch it and sync_to_cloud fails as a whole
InsertRejected ==
    /\ pc = "insert"
    /\ online
    /\ SyncFails("rejected")
    /\ UNCHANGED << sensor_data, sqlite_sequence, sync_state, last_synced_id,
                    neon_conn_string, mqtt_connected, timer, other_vars, neon_rows, online >>
    /\ UNCHANGED << assigned, offline_ids, crash_batch, mark_ids,
                    mark_cursor, last_fetch, batch_floor >>

\* neon_conn.commit()
NeonCommit ==
    /\ pc = "commit"
    /\ IF ~online
       THEN /\ SyncFails("offline")
            /\ UNCHANGED << neon_rows, crash_batch >>
       ELSE /\ neon_rows' = [t \in Times |-> neon_rows[t] + neon_tx[t]]
            /\ neon_tx' = NoRows
            /\ pc' = "mark"
            /\ last_op' = [op |-> "remote_commit"]
            /\ crash_batch' = {}
            /\ UNCHANGED << unsynced, idx, synced_ids, synced_count,
                            local_tx, local_lock, sync_call >>
    /\ UNCHANGED << sensor_data, sqlite_sequence, sync_state, last_synced_id,
                    neon_conn_string, mqtt_connected, timer, other_vars, online >>
    /\ UNCHANGED << assigned, offline_ids, mark_ids, mark_cursor,
                    last_fetch, batch_floor >>

\* mutant: the UPDATE is committed on the spot, before the cursor is saved
MarkSynced_CommitFirst ==
    /\ pc = "mark"
    /\ sensor_data' = [ i \in DOMAIN sensor_data |->
                          IF i \in SeqSet(synced_ids)
                          THEN [sensor_data[i] EXCEPT !.synced = 1]
                          ELSE sensor_data[i] ]
    /\ local_tx' = {}
    /\ local_lock' = FALSE
    /\ last_synced_id' = SetMax(SeqSet(synced_ids))
    /\ pc' = "save"
    /\ last_op' = [op |-> "marked"]
    /\ mark_ids' = SeqSet(synced_ids)
    /\ mark_cursor' = PersistedCursor
    /\ UNCHANGED << sqlite_sequence, sync_state, neon_conn_string, mqtt_connected, timer, other_vars, neon_rows,
                    neon_tx, online, unsynced, idx, synced_ids, synced_count >>
    /\ UNCHANGED << sync_call, assigned, offline_ids, crash_batch,
                    last_fetch, batch_floor >>

\* UPDATE sensor_data SET synced = 1 WHERE id IN (synced_ids), inside
\* local_conn's transaction, and self.last_synced_id = max(synced_ids)
MarkSynced ==
    /\ pc = "mark"
    /\ local_tx' = SeqSet(synced_ids)
    /\ local_lock' = TRUE
    /\ last_synced_id' = SetMax(SeqSet(synced_ids))
    /\ pc' = "save"
    /\ last_op' = [op |-> "marked"]
    /\ mark_ids' = SeqSet(synced_ids)
    /\ mark_cursor' = PersistedCursor
    /\ UNCHANGED << sensor_data, sqlite_sequence, sync_state,
                    neon_conn_string, mqtt_connected, timer, other_vars, neon_rows, neon_tx, online, unsynced,
                    idx, synced_ids, synced_count >>
    /\ UNCHANGED << sync_call, assigned, offline_ids, crash_batch,
                    last_fetch, batch_floor >>

\* mutant: the cursor row is written and committed by the second
\* connection, then local_conn.commit() fails and the UPDATE is rolled back
SaveSyncState_CursorOnly ==
    /\ pc = "save"
    /\ sync_state' = << last_synced_id >>
    /\ SyncFails("locked")
    /\ UNCHANGED << sensor_data, sqlite_sequence, last_synced_id,
                    neon_conn_string, mqtt_connected, timer, other_vars, neon_rows,
                    online >>
    /\ UNCHANGED << assigned, offline_ids, crash_batch, mark_ids,
                    mark_cursor, last_fetch, batch_floor >>

\* _save_sync_state through its own connection, then local_conn.commit().
\* The second connection's write waits for local_conn's lock and gives up
\* with OperationalError('database is locked'); sync_to_cloud returns 0 and
\* closing local_conn rolls the UPDATE back.
SaveSyncState ==
    /\ pc = "save"
    /\ IF DatabaseLocked
       THEN /\ SyncFails("locked")
            /\ UNCHANGED << sensor_data, sync_state, last_fetch >>
       ELSE /\ sync_state' = << last_synced_id >>
            /\ sensor_data' = [ i \in DOMAIN sensor_data |->
                                  IF i \in local_tx
                                  THEN [sensor_data[i] EXCEPT !.synced = 1]
                                  ELSE sensor_data[i] ]
            /\ pc' = "idle"
            /\ last_op' = [op |-> "sync_returned", count |-> synced_count]
            /\ SyncLocalsReset
            /\ last_fetch' = << >>
    /\ UNCHANGED << sqlite_sequence, last_synced_id, neon_conn_string, mqtt_connected, timer, other_vars,
                    neon_rows, online >>
    /\ UNCHANGED << assigned, offline_ids, crash_batch, mark_ids,
                    mark_cursor, batch_floor >>

\* mutant: the retention job runs in a thread of its own and may start
\* while sync_to_cloud is between two of its statements
Prune_Concurrent(now, days) ==
    /\ IF CutoffValid(now, days)
       THEN LET cutoff == now - days
                doomed == Doomed(sensor_data, cutoff)
            IN  /\ sensor_data' = [ i \in DOMAIN sensor_data \ doomed |->
                                      sensor_data[i] ]
                /\ last_op' = [op |-> "prune", cutoff |-> cutoff,
                               deleted |-> Cardinality(doomed),
                               after_failed_sync |->
                                   last_op.op = "sync_failed"]
       ELSE /\ UNCHANGED sensor_data
            /\ last_op' = [op |-> "prune_failed"]
    /\ UNCHANGED << sqlite_sequence, sync_state, last_synced_id,
                    neon_conn_string, mqtt_connected, timer, other_vars, neon_rows, neon_tx, online, pc,
                    unsynced, idx, synced_ids, synced_count, local_tx,
                    local_lock, sync_call >>
    /\ UNCHANGED << assigned, offline_ids, crash_batch, mark_ids,
                    mark_cursor, last_fetch, batch_floor >>

\* cleanup_old_synced_records(days) called on day now
Prune(now, days) ==
    /\ pc = "idle"
    /\ IF CutoffValid(now, days)
       THEN LET cutoff == now - days
                doomed == Doomed(sensor_data, cutoff)
            IN  /\ sensor_data' = [ i \in DOMAIN sensor_data \ doomed |->
                                      sensor_data[i] ]
                /\ last_op' = [op |-> "prune", cutoff |-> cutoff,
                               deleted |-> Cardinality(doomed),
                               after_failed_sync |->
                                   last_op.op = "sync_failed"]
       ELSE /\ UNCHANGED sensor_data
            /\ last_op' = [op |-> "prune_failed"]
    /\ UNCHANGED << sqlite_sequence, sync_state, last_synced_id,
                    neon_conn_string, mqtt_connected, timer, other_vars, neon_rows, neon_tx, online, pc,
                    unsynced, idx, synced_ids, synced_count, local_tx,
                    local_lock, sync_call >>
    /\ UNCHANGED << assigned, offline_ids, crash_batch, mark_ids,
                    mark_cursor, last_fetch, batch_floor >>

\* the process dies and is started again: both open transactions are lost,
\* __init__ runs _init_local_db and _load_sync_state
CrashRestart ==
    /\ LET db == InitLocalDb([table |-> sensor_data, seq |-> sqlite_sequence])
       IN  /\ sensor_data' = db.table
           /\ sqlite_sequence' = db.seq
    /\ pc' = "idle"
    /\ SyncLocalsReset
    /\ last_synced_id' = PersistedCursor
    /\ last_op' = [op |-> "restart", at |-> pc]
    /\ crash_batch' = IF pc \in {"mark", "save"} THEN SeqSet(synced_ids)
                      ELSE crash_batch
    /\ last_fetch' = << >>
    /\ UNCHANGED << sync_state, neon_conn_string, mqtt_connected, timer, other_vars, neon_rows, online >>
    /\ UNCHANGED << assigned, offline_ids, mark_ids, mark_cursor, batch_floor >>

\* the network comes and goes
SetOnline ==
    /\ online' = ~online
    /\ offline_ids' = IF online' THEN {} ELSE offline_ids
    /\ UNCHANGED << sensor_data, sqlite_sequence, sync_state, last_synced_id,
                    neon_conn_string, mqtt_connected, timer, other_vars, neon_rows, neon_tx, pc, unsynced, idx,
                    synced_ids, synced_count, local_tx, local_lock >>
    /\ UNCHANGED << sync_call, last_op, assigned, crash_batch, mark_ids,
                    mark_cursor, last_fetch, batch_floor >>

Next ==
    \/ \E t \in Times : log_sensor_data(t)
    \/ AppendFails
    \/ PeriodicSync
    \/ SyncBegin
    \/ InsertRecord
    \/ InsertRejected
    \/ NeonCommit
    \/ MarkSynced
    \/ SaveSyncState
    \/ \E now \in Times, days \in Horizons : Prune(now, days)
    \/ CrashRestart
    \/ SetOnline

Spec == Init /\ [][Next]_vars

\* ------------------------------------------------------- specifications
\* the remote store is offline throughout and the backlog outgrows one batch
BulkAppend == ~online /\ AppendRow(1, MaxBulk)

InitBulk == Init /\ ~online /\ neon_conn_string

NextBulk ==
    \/ BulkAppend
    \/ PeriodicSync
    \/ SyncBegin
    \/ \E now \in Times, days \in Horizons : Prune(now, days)
    \/ CrashRestart

SpecBulk == InitBulk /\ [][NextBulk]_vars

\* the remote store comes back and stays, the process does not crash, and
\* the main loop keeps running its periodic sync check
GoOnline == ~online /\ SetOnline

InitLive == Init /\ neon_conn_string

NextLive ==
    \/ \E t \in Times : log_sensor_data(t)
    \/ PeriodicSync
    \/ SyncBegin
    \/ InsertRecord
    \/ InsertRejected
    \/ NeonCommit
    \/ MarkSynced
    \/ SaveSyncState
    \/ \E now \in Times, days \in Horizons : Prune(now, days)
    \/ GoOnline

LiveSpec ==
    /\ InitLive
    /\ [][NextLive]_vars
    /\ WF_vars(GoOnline)
    /\ WF_vars(PeriodicSync)
    /\ WF_vars(SyncBegin)
    /\ WF_vars(InsertRecord)
    /\ WF_vars(NeonCommit)
    /\ WF_vars(MarkSynced)
    /\ WF_vars(SaveSyncState)

\* the logger is constructed over a local database that exists already, with
\* any rows, any sync_state row and the remote store unreachable; the
\* pending fetch, the prune and the start are applied to it
FetchCall(limit) ==
    /\ pc = "idle"
    /\ last_op' = [op |-> "fetch_pending", limit |-> limit,
                   rows |-> FetchPending(sensor_data, limit)]
    /\ UNCHANGED << model_vars, sync_call, assigned, offline_ids, crash_batch,
                    mark_ids, mark_cursor, last_fetch, batch_floor >>

InitStore ==
    /\ \E ids \in SUBSET (1..MaxStoreRows) :
           sensor_data \in [ids -> [ts : StoreTimes, synced : {0, 1}]]
    /\ sqlite_sequence = MaxRowId(sensor_data)
    /\ sync_state \in {<< >>} \cup { << v >> : v \in 0..MaxStoreRows }
    /\ last_synced_id = PersistedCursor
    /\ neon_conn_string \in BOOLEAN
    /\ mqtt_connected = TRUE
    /\ timer = TimerInit
    /\ MotionInit
    /\ AppInit
    /\ neon_rows = NoRows
    /\ neon_tx = NoRows
    /\ online = FALSE
    /\ pc = "idle"
    /\ unsynced = << >>
    /\ idx = 0
    /\ synced_ids = << >>
    /\ synced_count = 0
    /\ local_tx = {}
    /\ local_lock = FALSE
    /\ sync_call = << >>
    /\ last_op = [op |-> "init"]
    /\ assigned = DOMAIN sensor_data
    /\ offline_ids = {}
    /\ crash_batch = {}
    /\ mark_ids = {}
    /\ mark_cursor = 0
    /\ last_fetch = << >>
    /\ batch_floor = 0

NextStore ==
    \/ \E limit \in FetchLimits : FetchCall(limit)
    \/ PeriodicSync
    \/ SyncBegin
    \/ \E now \in Times, days \in Horizons : Prune(now, days)
    \/ CrashRestart

SpecStore == InitStore /\ [][NextStore]_vars

\* the offline backlog scenario: every record is appended while the remote
\* store is unreachable, then the store comes back and stays; no prune and
\* no crash
OfflineAppend(t) == ~online /\ log_sensor_data(t)

InitBacklog == Init /\ ~online /\ neon_conn_string

NextBacklog ==
    \/ \E t \in Times : OfflineAppend(t)
    \/ PeriodicSync
    \/ SyncBegin
    \/ InsertRecord
    \/ InsertRejected
    \/ NeonCommit
    \/ MarkSynced
    \/ SaveSyncState
    \/ GoOnline

SpecBacklog == InitBacklog /\ [][NextBacklog]_vars

\* the main loop of main.py with its MQTT connection: the paho thread sets
\* and clears mqtt_connected, timer, other_vars, and an iteration that finds it cleared sleeps
\* and goes on to the next iteration without reading a sensor, logging or
\* reaching the periodic sync check; the process neither crashes nor is
\* shut down
on_connect ==
    /\ ~mqtt_connected
    /\ mqtt_connected' = TRUE
    /\ UNCHANGED << sensor_data, sqlite_sequence, sync_state, last_synced_id,
                    neon_conn_string, neon_rows, neon_tx, online, pc,
                    unsynced, idx, synced_ids, synced_count, local_tx,
                    local_lock, timer, other_vars >>
    /\ UNCHANGED hist_vars

on_disconnect ==
    /\ mqtt_connected
    /\ mqtt_connected' = FALSE
    /\ UNCHANGED << sensor_data, sqlite_sequence, sync_state, last_synced_id,
                    neon_conn_string, neon_rows, neon_tx, online, pc,
                    unsynced, idx, synced_ids, synced_count, local_tx,
                    local_lock, timer, other_vars >>
    /\ UNCHANGED hist_vars

\* an iteration of the main loop logs a reading
MainAppend(t) == mqtt_connected /\ log_sensor_data(t)

\* an iteration of the main loop finds the sync interval elapsed and
\* get_unsynced_count() > 0
PeriodicCheck == mqtt_connected /\ UnsyncedCount > 0 /\ PeriodicSync

InitMain == Init /\ neon_conn_string

NextMain ==
    \/ \E t \in Times : MainAppend(t)
    \/ PeriodicCheck
    \/ SyncBegin
    \/ InsertRecord
    \/ InsertRejected
    \/ NeonCommit
    \/ MarkSynced
    \/ SaveSyncState
    \/ SetOnline
    \/ on_connect
    \/ on_disconnect

MainSpec ==
    /\ InitMain
    /\ [][NextMain]_vars
    /\ WF_vars(PeriodicCheck)
    /\ WF_vars(SyncBegin)
    /\ WF_vars(InsertRecord)
    /\ WF_vars(NeonCommit)
    /\ WF_vars(MarkSynced)
    /\ WF_vars(SaveSyncState)

\* the main loop with its clock while the remote store is unreachable:
\* MQTT is up, the loop logs readings, runs its periodic check as soon as
\* it is due and sleeps in between
ClockAppend(t) ==
    /\ mqtt_connected
    /\ AppendRowCall(t, MaxRecords)
    /\ timer' = CycleStarted

\* if db_logger and (current_time - last_sync_check > 120): sync when
\* get_unsynced_count() > 0, then last_sync_check = current_time
ClockCheck ==
    /\ mqtt_connected
    /\ pc = "idle"
    /\ timer.since_check > SyncInterval
    /\ IF UnsyncedCount > 0
       THEN /\ PeriodicSyncCall
            /\ timer' = [CycleStarted EXCEPT !.since_check = 0]
       ELSE /\ timer' = [timer EXCEPT !.since_check = 0]
            /\ UNCHANGED << sensor_data, sqlite_sequence, sync_state,
                            last_synced_id, neon_conn_string, mqtt_connected, other_vars,
                            neon_rows, neon_tx, online, pc, unsynced, idx,
                            synced_ids, synced_count, local_tx, local_lock >>
            /\ UNCHANGED hist_vars

\* d seconds pass in the main loop with nothing to do; a periodic check
\* that is due is not put off
Wait(d) ==
    /\ pc = "idle"
    /\ timer.since_check <= SyncInterval
    /\ timer' = [timer EXCEPT
                   !.since_check = Elapsed(@, d, SyncInterval + 1),
                   !.since_start = Elapsed(@, d, 2 * SyncInterval + 2)]
    /\ UNCHANGED << sensor_data, sqlite_sequence, sync_state, last_synced_id,
                    neon_conn_string, mqtt_connected, other_vars, neon_rows, neon_tx,
                    online, pc, unsynced, idx, synced_ids, synced_count,
                    local_tx, local_lock >>
    /\ UNCHANGED hist_vars

InitClock == Init /\ ~online /\ neon_conn_string

NextClock ==
    \/ \E t \in Times : ClockAppend(t)
    \/ ClockCheck
    \/ \E d \in {ReadInterval + 1, SyncInterval + 1} : Wait(d)
    \/ SyncBegin

SpecClock == InitClock /\ [][NextClock]_vars

\* the motion handling of the main loop, the on_message callback of the
\* MQTT thread, a PIRWatcher polled on the same pin, the sensor and the clock
LoggerIdle ==
    UNCHANGED << sensor_data, sqlite_sequence, sync_state, last_synced_id,
                 neon_conn_string, mqtt_connected, timer, neon_rows, neon_tx,
                 online, pc, unsynced, idx, synced_ids, synced_count,
                 local_tx, local_lock, hist_vars, app_vars >>

\* mutant: the test of line 370 does not look at system_mode
MainPoll_AnyMode ==
    /\ main_pc = "poll"
    /\ LET result == /\ motion_pin
                     /\ Debounced(clock, last_motion_time,
                                  motion_debounce * 1000)
       IN  /\ last_motion_time' = IF result THEN clock ELSE last_motion_time
           /\ true_at' = IF result
                         THEN [true_at EXCEPT !["check_motion"] =
                                                 Remember(@, clock)]
                         ELSE true_at
           /\ last_test' = [motion |-> result,
                            mode |-> IF result THEN system_mode
                                     ELSE "unread"]
           /\ main_pc' = IF result THEN "decided" ELSE "poll"
    /\ UNCHANGED << system_mode, motion_pin, clock, pir_last >>
    /\ LoggerIdle

\* if check_motion() and system_mode == "ARMED": check_motion is called
\* first and system_mode is read only when it returned True
MainPoll ==
    /\ main_pc = "poll"
    /\ LET result == /\ motion_pin
                     /\ Debounced(clock, last_motion_time,
                                  motion_debounce * 1000)
       IN  /\ last_motion_time' = IF result THEN clock ELSE last_motion_time
           /\ true_at' = IF result
                         THEN [true_at EXCEPT !["check_motion"] =
                                                 Remember(@, clock)]
                         ELSE true_at
           /\ last_test' = [motion |-> result,
                            mode |-> IF result THEN system_mode
                                     ELSE "unread"]
           /\ main_pc' = IF result /\ system_mode = "ARMED"
                         THEN "decided" ELSE "poll"
    /\ UNCHANGED << system_mode, motion_pin, clock, pir_last >>
    /\ LoggerIdle

\* GPIO.output(GREEN, True): the first effect of the intrusion sequence
IntrusionStart ==
    /\ main_pc = "decided"
    /\ main_pc' = "alarm"
    /\ UNCHANGED << system_mode, motion_pin, clock, last_motion_time,
                    pir_last, last_test, true_at >>
    /\ LoggerIdle

\* the rest of the sequence, up to "Motion event complete"
IntrusionEnd ==
    /\ main_pc = "alarm"
    /\ main_pc' = "poll"
    /\ UNCHANGED << system_mode, motion_pin, clock, last_motion_time,
                    pir_last, last_test, true_at >>
    /\ LoggerIdle

\* on_message for the system-mode feed, in the MQTT thread
on_message(payload) ==
    /\ system_mode' = IF payload \in {"ARMED", "DISARMED"} THEN payload
                      ELSE system_mode
    /\ UNCHANGED << main_pc, motion_pin, clock, last_motion_time, pir_last,
                    last_test, true_at >>
    /\ LoggerIdle

\* PIRWatcher.motion()
PirMotion ==
    /\ LET result == motion_pin /\ Debounced(clock, pir_last, debounce_ms)
       IN  /\ pir_last' = IF result THEN clock ELSE pir_last
           /\ true_at' = IF result
                         THEN [true_at EXCEPT !["PIRWatcher.motion"] =
                                                 Remember(@, clock)]
                         ELSE true_at
    /\ UNCHANGED << system_mode, main_pc, motion_pin, clock,
                    last_motion_time, last_test >>
    /\ LoggerIdle

\* the sensor output changes
PinChange ==
    /\ motion_pin' = ~motion_pin
    /\ UNCHANGED << system_mode, main_pc, clock, last_motion_time, pir_last,
                    last_test, true_at >>
    /\ LoggerIdle

\* half a second passes
Tick ==
    /\ clock < StartTime + MaxClock * ClockStep
    /\ clock' = clock + ClockStep
    /\ UNCHANGED << system_mode, main_pc, motion_pin, last_motion_time,
                    pir_last, last_test, true_at >>
    /\ LoggerIdle

NextMotion ==
    \/ MainPoll
    \/ IntrusionStart
    \/ IntrusionEnd
    \/ \E payload \in {"ARMED", "DISARMED", "OTHER"} : on_message(payload)
    \/ PirMotion
    \/ PinChange
    \/ Tick

InitMotion == Init /\ neon_conn_string /\ online

SpecMotion == InitMotion /\ [][NextMotion]_vars

\* ------------------------------------- the dashboard's motion log, app.py
\* the logger and the main loop take no step
DeviceIdle ==
    UNCHANGED << sensor_data, sqlite_sequence, sync_state, last_synced_id,
                 neon_conn_string, mqtt_connected, timer, neon_rows, neon_tx,
                 online, pc, unsynced, idx, synced_ids, synced_count,
                 local_tx, local_lock, hist_vars, motion_vars >>

\* fetch_motion_logs_by_date up to its filter loop: the query returned rows,
\* each becomes a dict with its datetime and its formatted timestamp
FetchLogs(rows) ==
    /\ logs_pc \in {"idle", "returned"}
    /\ raw_logs' = [i \in 1..Len(rows) |->
                       [datetime_obj |-> rows[i],
                        timestamp |-> strftime(rows[i])]]
    /\ log_i' = 1
    /\ filtered_logs' = << >>
    /\ last_reported_time' = None
    /\ reported' = {}
    /\ logs_result' = << >>
    /\ logs_pc' = "filter"
    /\ UNCHANGED control_vars
    /\ DeviceIdle

\* no NEON_DATABASE_URL, or psycopg2.Error: (None, message) is returned
FetchLogsFails ==
    /\ logs_pc \in {"idle", "returned"}
    /\ raw_logs' = << >>
    /\ log_i' = 1
    /\ filtered_logs' = << >>
    /\ last_reported_time' = None
    /\ reported' = {}
    /\ logs_result' = << [logs |-> << >>, error |-> TRUE] >>
    /\ logs_pc' = "returned"
    /\ UNCHANGED control_vars
    /\ DeviceIdle

\* one iteration of 'for log in raw_logs'
FilterLog ==
    /\ logs_pc = "filter"
    /\ log_i <= Len(raw_logs)
    /\ LET log == raw_logs[log_i]
           current_time == log.datetime_obj
       IN  IF last_reported_time = None
              \/ PastInterval(current_time, last_reported_time)
           THEN /\ filtered_logs' =
                      Append(filtered_logs, [timestamp |-> log.timestamp])
                /\ last_reported_time' = current_time
                /\ reported' = reported \cup {log_i}
           ELSE UNCHANGED << filtered_logs, last_reported_time, reported >>
    /\ log_i' = log_i + 1
    /\ UNCHANGED << raw_logs, logs_pc, logs_result, control_vars >>
    /\ DeviceIdle

\* return filtered_logs[::-1], None
ReturnLogs ==
    /\ logs_pc = "filter"
    /\ log_i > Len(raw_logs)
    /\ logs_result' = << [logs |-> Reversed(filtered_logs), error |-> FALSE] >>
    /\ logs_pc' = "returned"
    /\ UNCHANGED << raw_logs, log_i, filtered_logs, last_reported_time,
                    reported, control_vars >>
    /\ DeviceIdle

NextLogs ==
    \/ \E rows \in QueryResults : FetchLogs(rows)
    \/ FetchLogsFails
    \/ FilterLog
    \/ ReturnLogs

InitApp == Init /\ neon_conn_string /\ online

SpecLogs == InitApp /\ [][NextLogs]_vars

\* ---------------------------------- the dashboard's device control, app.py
\* the "value" member as data.get('value', '') gives it
ValueGiven(value) == IF value.type = "string" THEN value.chars ELSE << >>

\* send_control_command: the commands posted and the flag returned
send_control_command(feed_name, value, outcome) ==
    IF aio_credentials = "placeholder"
    THEN [success |-> FALSE, posted |-> << >>]
    ELSE [success |-> outcome = "ok",
          posted |-> << [feed |-> feed_name, value |-> value,
                         ok |-> outcome = "ok"] >>]

\* the value sent for a device
ControlValue(device, value) ==
    CASE device = "lcd_text" -> value
      [] device = "mode" -> IF lower(value) = << "o", "n" >>
                            THEN << "A", "R", "M", "E", "D" >>
                            ELSE << "D", "I", "S", "A", "R", "M", "E", "D" >>
      [] device \in {"buzzer", "camera"} -> << "1" >>
      [] OTHER -> upper(value)

\* POST /api/control/<device>, the whole handler
device_control_api(device, json_value, outcome) ==
    /\ ctl_request' = << [device |-> device, value |-> json_value,
                          outcome |-> outcome] >>
    /\ IF json_value.type = "number"
       THEN \* .strip() of a number: AttributeError, Flask answers 500
            /\ ctl_response' = << [status |-> 500, json |-> FALSE,
                                   success |-> FALSE] >>
            /\ posted' = << >>
       ELSE LET value == strip(ValueGiven(json_value))
                feed_name == FeedsGet("ctrl_" \o device)
            IN  IF feed_name = ""
                THEN /\ ctl_response' = << [status |-> 400, json |-> TRUE,
                                            success |-> FALSE] >>
                     /\ posted' = << >>
                ELSE IF device = "lcd_text" /\ Len(value) > MAX_LENGTH
                THEN /\ ctl_response' = << [status |-> 400, json |-> TRUE,
                                            success |-> FALSE] >>
                     /\ posted' = << >>
                ELSE LET sent == send_control_command(
                                     feed_name, ControlValue(device, value),
                                     outcome)
                     IN  /\ posted' = sent.posted
                         /\ ctl_response' =
                              << [status |-> IF sent.success THEN 200 ELSE 500,
                                  json |-> TRUE,
                                  success |-> sent.success] >>
    /\ UNCHANGED << aio_credentials, logs_vars >>
    /\ DeviceIdle

\* the dashboard process starts: AIO_USERNAME and AIO_KEY come from the
\* environment, which may hold the placeholders of the template
LoadConfig(credentials) ==
    /\ aio_credentials' = credentials
    /\ ctl_request' = << >>
    /\ ctl_response' = << >>
    /\ posted' = << >>
    /\ UNCHANGED logs_vars
    /\ DeviceIdle

NextControl ==
    \/ \E device \in Devices, json_value \in JsonValues,
          outcome \in PostOutcomes :
              device_control_api(device, json_value, outcome)
    \/ \E credentials \in Credentials : LoadConfig(credentials)

SpecControl == InitApp /\ [][NextControl]_vars

\* ---------------------------------------------------------------- claims
IsPending(id) == id \in DOMAIN sensor_data /\ sensor_data[id].synced = 0

IsSynced(id) == id \in DOMAIN sensor_data /\ sensor_data[id].synced = 1

\* the records a sync cycle has marked: synced = 1 committed, or set by the
\* UPDATE of the running cycle
MarkedSynced == { id \in DOMAIN sensor_data : IsSynced(id) } \cup local_tx

HasRemoteRow(id) == neon_rows[sensor_data[id].ts] > 0

\* C1: every record that is Synced, or that the running sync cycle has
\* marked Synced with its UPDATE, has a matching row committed in the
\* remote store, whatever the composition of the batch.
C1_SyncedHasRemoteRow == \A id \in MarkedSynced : HasRemoteRow(id)

\* C2 as stated: every record appended while the remote store is unreachable
\* stays Pending, is not deleted by the prune, and is among the rows the
\* pending fetch returns, for as long as the store stays unreachable.
C2_OfflineRecordsFetched ==
    LET fetched == FetchedIds(FetchPending(sensor_data, BatchLimit))
    IN  \A id \in offline_ids : IsPending(id) /\ id \in fetched

\* C2 as amended: every record appended while the remote store is
\* unreachable stays Pending and is not deleted by the prune; the pending
\* fetch returns it unless BatchLimit Pending records with smaller ids fill
\* the batch.
C2_OfflineRecordsStayPending ==
    LET fetched == FetchedIds(FetchPending(sensor_data, BatchLimit))
    IN  \A id \in offline_ids :
            /\ IsPending(id)
            /\ \/ id \in fetched
               \/ /\ Cardinality(fetched) = BatchLimit
                  /\ \A j \in fetched : IsPending(j) /\ j < id

\* a backlog larger than one batch has lived through a failed sync cycle
\* and then through a prune whose cutoff lies after the records' timestamps
C2_Witness ==
    /\ Cardinality(offline_ids) > BatchLimit
    /\ last_op.op = "prune"
    /\ last_op.after_failed_sync
    /\ \A id \in offline_ids :
           IsPending(id) /\ sensor_data[id].ts < last_op.cutoff

\* C3: once the remote store is reachable and stays so, repeated sync
\* cycles bring the number of Pending records down to zero.
C3_Convergence == (UnsyncedCount > 0) ~> (UnsyncedCount = 0)

\* C4: the remote store never shows two rows with the same natural key, and
\* after a crash between the remote commit of a batch and the end of its
\* mark-synced step the next cycle that sends a batch sends those records
\* again.
C4_ResendNoDuplicate ==
    /\ \A t \in Times : neon_rows[t] <= 1
    /\ (pc \in {"insert", "commit"} /\ crash_batch # {})
         => crash_batch \subseteq FetchedIds(unsynced)

\* the batch cut off by the crash has been sent again and its last record
\* was rejected as a duplicate
C4_Witness ==
    /\ crash_batch # {}
    /\ pc = "commit"
    /\ last_op.op = "duplicate"
    /\ crash_batch \subseteq SeqSet(synced_ids)
    /\ \A id \in crash_batch : neon_rows[sensor_data[id].ts] = 1

MarkSyncedEnds ==
    pc = "save" /\ last_op'.op \in {"sync_failed", "sync_returned"}

\* C5: the persisted cursor never decreases, and a mark-synced step that
\* runs to its end leaves it at max(ids) when that is greater than the
\* cursor was, and unchanged otherwise.
C5_CursorMonotonic ==
    [][ /\ PersistedCursor' >= PersistedCursor
        /\ MarkSyncedEnds =>
             PersistedCursor' = IF SetMax(mark_ids) > PersistedCursor
                                THEN SetMax(mark_ids) ELSE PersistedCursor
      ]_vars

\* C7: the durable state never shows a mark-synced step half done: of the
\* ids of the last step begun, either all are Synced and the persisted
\* cursor has reached their maximum, or none is Synced and the persisted
\* cursor is what it was when the step began.
C7_MarkSyncedAtomic ==
    mark_ids # {} =>
        \/ /\ \A id \in mark_ids : IsSynced(id)
           /\ PersistedCursor >= SetMax(mark_ids)
        \/ /\ \A id \in mark_ids : IsPending(id)
           /\ PersistedCursor = mark_cursor

\* the process crashed inside the mark-synced step, after the UPDATE and
\* before the cursor write, and has been restarted
C7_Witness ==
    /\ last_op = [op |-> "restart", at |-> "save"]
    /\ mark_ids # {}
    /\ \A id \in mark_ids : IsPending(id)

\* C8: a prune never deletes a Pending record, whatever the day it runs on,
\* the horizon and the age of the record.
C8_PruneKeepsPending ==
    [][ (\E now \in Times, days \in Horizons : Prune(now, days))
          => PendingIds(sensor_data) \subseteq PendingIds(sensor_data)' ]_vars

\* a prune has run whose cutoff lies after the timestamp of a Pending record
C8_Witness ==
    /\ last_op.op = "prune"
    /\ \E id \in PendingIds(sensor_data) : sensor_data[id].ts < last_op.cutoff

C11_DuplicatesAllSynced ==
    [][ (MarkSyncedEnds /\ 0 < synced_count /\ synced_count < Len(synced_ids))
          => /\ \A id \in mark_ids : IsSynced(id)'
             /\ PersistedCursor' = SetMax(mark_ids) ]_vars

\* a sync cycle has run to its end with the remote store reachable
OnlineCycleEnded ==
    /\ online
    /\ pc = "idle"
    /\ \/ last_op.op = "sync_returned"
       \/ last_op.op = "sync_failed" /\ last_op.why = "locked"

\* C12: while the remote store is offline the pending fetch returns all the
\* n records appended so far in ascending id order and the unsynced count is
\* n; once the store is online and a sync cycle has run to its end, the
\* remote store holds exactly one row per record, the unsynced count is 0
\* and the persisted cursor is the largest id.
C12_BacklogDrained ==
    LET batch == FetchPending(sensor_data, BatchLimit)
        n == Cardinality(DOMAIN sensor_data)
    IN  /\ ~online =>
               /\ Len(batch) = n
               /\ FetchedIds(batch) = DOMAIN sensor_data
               /\ \A i, j \in 1..Len(batch) :
                      i < j => batch[i].id < batch[j].id
               /\ UnsyncedCount = n
        /\ (OnlineCycleEnded /\ n > 0) =>
               /\ \A t \in Times :
                      neon_rows[t] =
                        Cardinality({ id \in DOMAIN sensor_data :
                                        sensor_data[id].ts = t })
               /\ UnsyncedCount = 0
               /\ PersistedCursor = MaxRowId(sensor_data)

\* a sync cycle ends in a failure of the remote store: the store is
\* unreachable at the connect, at an INSERT or at the commit, or it rejects
\* a record
RemoteFailureEnds ==
    /\ sync_call # << >>
    /\ last_op'.op = "sync_failed"
    /\ last_op'.why \in {"offline", "rejected"}

\* C13: a sync cycle that fails on the remote side leaves the local state
\* as it was when the cycle was entered: the same records with the same
\* sync_state, the same persisted cursor and the same in-memory cursor.
C13_FailedCycleKeepsLocalState ==
    [][ RemoteFailureEnds =>
          /\ sensor_data' = sync_call[1].table
          /\ sync_state' = sync_call[1].state
          /\ last_synced_id' = sync_call[1].cursor ]_vars

\* a cycle has sent a batch of two records and failed at the commit
C13_Witness ==
    /\ last_op = [op |-> "sync_failed", why |-> "offline", at |-> "commit"]
    /\ UnsyncedCount >= 2
    /\ neon_rows = NoRows

\* C14: when the remote store rejects one record of a batch with an error
\* that is not a duplicate, the cycle leaves that record Pending and every
\* other record of the batch committed remotely and Synced.
C14_BadRecordAlone ==
    [][ (pc = "insert" /\ last_op'.op = "sync_failed"
                       /\ last_op'.why = "rejected")
          => \A rec \in SeqSet(unsynced) :
                 IF rec = unsynced[idx]
                 THEN IsPending(rec.id)'
                 ELSE HasRemoteRow(rec.id)' /\ IsSynced(rec.id)' ]_vars

\* a step of sync_to_cloud that waits for the remote store: the connect,
\* an INSERT or the commit
RemoteCall ==
    \/ SyncBegin /\ last_op'.op \in {"fetched", "sync_failed"}
    \/ InsertRecord
    \/ InsertRejected
    \/ NeonCommit

\* C15: no call of the remote store is made between the entry of
\* log_sensor_data and its return to the producer.
C15_AppendMakesNoRemoteCall ==
    [][ (sync_call # << >> /\ sync_call[1].by = "log_sensor_data")
          => ~RemoteCall ]_vars

\* a step that runs the pending fetch: the fetch alone, or sync_to_cloud up
\* to its connect
FetchStep ==
    \/ last_op'.op = "fetch_pending" /\ FetchCall(last_op'.limit)
    \/ pc = "sync" /\ SyncBegin

\* C16: a pending fetch with limit l returns min(l, number of Pending
\* records) rows, all of them Pending records with their timestamps, in
\* ascending id order, every Pending record left out has a larger id than
\* every row returned, and the fetch (alone or as the first step of
\* sync_to_cloud) changes no record, no sync_state row and no cursor.
C16_FetchPendingContract ==
    [][ FetchStep =>
          /\ sensor_data' = sensor_data
          /\ sync_state' = sync_state
          /\ last_synced_id' = last_synced_id
          /\ last_op'.op = "fetch_pending" =>
                LET rows == last_op'.rows
                    limit == last_op'.limit
                    pending == PendingIds(sensor_data)
                IN  /\ Len(rows) = IF Cardinality(pending) < limit
                                   THEN Cardinality(pending) ELSE limit
                    /\ \A i \in 1..Len(rows) :
                           /\ rows[i].id \in pending
                           /\ rows[i].ts = sensor_data[rows[i].id].ts
                    /\ \A i, j \in 1..Len(rows) :
                           i < j => rows[i].id < rows[j].id
                    /\ \A id \in pending \ FetchedIds(rows) :
                           \A j \in FetchedIds(rows) : j < id
      ]_vars

\* a fetch that has filled its limit with a Pending record and has passed
\* over a Synced record with a smaller id
C16_Witness ==
    /\ last_op.op = "fetch_pending"
    /\ last_op.limit > 0
    /\ last_op.limit = Len(last_op.rows)
    /\ \E id \in DOMAIN sensor_data :
           IsSynced(id) /\ \E j \in FetchedIds(last_op.rows) : id < j

\* sync_to_cloud runs its pending fetch and an earlier fetch is on record
\* with no committed mark-synced step in between
FetchAgain ==
    /\ pc = "sync"
    /\ SyncBegin
    /\ neon_conn_string
    /\ last_fetch # << >>

\* C17 as stated: two pending fetches with no mark-synced step between them
\* return the same rows, whatever appends, prunes and failed sync cycles
\* happen in between.
C17_FetchRestartable ==
    [][ FetchAgain => last_fetch'[1].rows = last_fetch[1].rows ]_vars

\* C17 as amended: two pending fetches with no mark-synced step between them
\* return the same rows when no record was appended in between, whatever
\* prunes and failed sync cycles happen in between; after appends
\* the second fetch returns the rows of the first, in the same order,
\* followed by appended records.
C17_FetchRestartableNoAppend ==
    [][ FetchAgain =>
          LET first == last_fetch[1].rows
              second == last_fetch'[1].rows
          IN  /\ sqlite_sequence = last_fetch[1].seq => second = first
              /\ Len(first) <= Len(second)
              /\ \A i \in 1..Len(first) : second[i] = first[i]
              /\ \A i \in (Len(first) + 1)..Len(second) :
                     second[i].id > last_fetch[1].seq ]_vars

\* a fetch has returned the rows of the fetch before it, with a sync cycle
\* whose mark-synced step did not commit in between, and no append
C17_Witness ==
    /\ last_fetch # << >>
    /\ last_fetch[1].again
    /\ ~last_fetch[1].grown
    /\ last_fetch[1].rows # << >>
    /\ mark_ids = FetchedIds(last_fetch[1].rows)
    /\ pc = "insert"

\* C18: a prune called on day now with the horizon days leaves no Synced
\* record whose timestamp is older than now - days, deletes nothing else,
\* and returns the number of rows it has removed, for every day and every
\* horizon.
C18_PruneDeletesOld ==
    [][ (pc = "idle" /\ last_op'.op \in {"prune", "prune_failed"}) =>
          \A now \in Times, days \in Horizons :
            Prune(now, days) =>
              LET old == { id \in DOMAIN sensor_data :
                             /\ sensor_data[id].synced = 1
                             /\ sensor_data[id].ts < now - days }
                  returned == IF last_op'.op = "prune"
                              THEN last_op'.deleted ELSE 0
              IN  /\ DOMAIN sensor_data' = DOMAIN sensor_data \ old
                  /\ returned = Cardinality(old) ]_vars

\* C19: no step changes the timestamp of a stored record (the field ts
\* stands for all the columns that the INSERT writes), and a step removes a
\* record only if it is a prune with a valid cutoff and the record is
\* Synced and older than the cutoff; sync cycles, failed or not, and
\* restarts remove and rewrite nothing.
C19_RecordsImmutable ==
    [][ \A id \in DOMAIN sensor_data :
          IF id \in DOMAIN sensor_data'
          THEN sensor_data'[id].ts = sensor_data[id].ts
          ELSE /\ sensor_data[id].synced = 1
               /\ \E now \in Times, days \in Horizons :
                      /\ Prune(now, days)
                      /\ CutoffValid(now, days)
                      /\ sensor_data[id].ts < now - days ]_vars

\* a record has been sent and committed remotely, its mark-synced step was
\* cut off by a crash, the process was restarted and a prune with a cutoff
\* after the record's timestamp has run: the record is still stored
C19_Witness ==
    /\ last_op.op = "prune"
    /\ \E id \in crash_batch :
           /\ id \in DOMAIN sensor_data
           /\ sensor_data[id].ts < last_op.cutoff
           /\ HasRemoteRow(id)

\* the largest id of a Synced record, 0 when there is none
MaxSyncedId ==
    LET synced == { id \in DOMAIN sensor_data : IsSynced(id) }
    IN  IF synced = {} THEN 0 ELSE SetMax(synced)

\* the persisted cursor does not fit the stored records: it lies above the
\* largest Synced id, or there is no sync_state row while Synced records
\* exist
CursorInconsistent ==
    \/ PersistedCursor > MaxSyncedId
    \/ sync_state = << >> /\ MaxSyncedId > 0

\* C20: a start over a database whose persisted cursor does not fit the
\* stored records sets the cursor to the largest Synced id, and a start
\* leaves every stored record as it is.
C20_StartupRecomputesCursor ==
    [][ (last_op'.op = "restart" /\ CrashRestart) =>
          /\ sensor_data' = sensor_data
          /\ CursorInconsistent => last_synced_id' = MaxSyncedId ]_vars

\* the call of log_sensor_data that stored a record returns its id: the
\* sync_to_cloud call it made ends, in whatever way
AppendReturnsId ==
    /\ sync_call # << >>
    /\ sync_call[1].by = "log_sensor_data"
    /\ last_op'.op \in {"sync_failed", "sync_returned"}

\* C21: a failed append returns no id, creates no record, leaves the stored
\* records, the AUTOINCREMENT counter and both cursors as they were and
\* leaves the logger ready for the next append; an append that stores its
\* record stores it as Pending, and when its call returns the id, whatever
\* became of the sync cycle it ran, the record is stored.
C21_AppendFailureSurfaced ==
    [][ /\ (pc = "idle" /\ last_op'.op = "append_failed") =>
              /\ sensor_data' = sensor_data
              /\ sqlite_sequence' = sqlite_sequence
              /\ sync_state' = sync_state
              /\ last_synced_id' = last_synced_id
              /\ pc' = "idle"
        /\ (pc = "idle" /\ last_op'.op = "append") =>
              /\ last_op'.id \notin DOMAIN sensor_data
              /\ last_op'.id \in DOMAIN sensor_data'
              /\ sensor_data'[last_op'.id].synced = 0
        /\ AppendReturnsId => sqlite_sequence \in DOMAIN sensor_data'
      ]_vars

\* an append has failed over a table that holds records, and the next
\* append has stored its record
C21_Witness ==
    /\ last_op.op = "append"
    /\ last_op.after_failure
    /\ last_op.after # {}
    /\ IsPending(last_op.id)

\* the ids of the batch of the last remote commit, in a state where no
\* cycle stands between its remote commit and its mark-synced step
LastCommitted == IF crash_batch # {} THEN crash_batch ELSE mark_ids

\* the for loop has run to its end and neon_conn.commit() succeeds
RemoteCommitStep == pc = "commit" /\ pc' = "mark"

MarkSyncedStepEnds == pc = "save" /\ pc' = "idle" /\ last_op'.op # "restart"

\* C23: when the remote commit succeeded and the process does not crash,
\* the same cycle completes its mark-synced step: the cursor write through
\* the second connection does not fail on the write lock held by the first
\* connection's UPDATE, every committed record becomes Synced and the
\* cursor is persisted.
C23_MarkSyncedCompletes ==
    [][ MarkSyncedStepEnds =>
          /\ last_op'.op = "sync_returned"
          /\ \A id \in SeqSet(synced_ids) :
                 id \in DOMAIN sensor_data' /\ sensor_data'[id].synced = 1
          /\ sync_state' = << SetMax(SeqSet(synced_ids)) >>
      ]_vars

\* a mutating operation of the local store begins: the INSERT of
\* log_sensor_data, the DELETE of cleanup_old_synced_records or the UPDATE
\* of sync_to_cloud
MutationBegins ==
    /\ last_op' # last_op
    /\ last_op'.op \in {"append", "append_failed", "prune", "prune_failed",
                        "marked"}

BatchFetched ==
    /\ pc = "sync"
    /\ pc' # "sync"
    /\ last_fetch' # << >>
    /\ last_fetch'[1].rows # << >>

\* C25: batches are drained in non-decreasing id order: the records of a
\* batch are fetched and sent to the remote store in ascending id, and the
\* smallest id of the batch of a sync cycle is not below the smallest id of
\* the batch of any earlier cycle, process restarts included.
C25_BatchesAscending ==
    [][ /\ \A i, j \in DOMAIN synced_ids' :
              i < j => synced_ids'[i] < synced_ids'[j]
        /\ BatchFetched =>
              LET rows == last_fetch'[1].rows
              IN  /\ \A i, j \in DOMAIN rows : i < j => rows[i].id < rows[j].id
                  /\ SetMin(FetchedIds(rows)) >= batch_floor
      ]_vars

\* a cycle has sent a batch of two records in order, and an earlier cycle
\* had a batch as well
C25_Witness ==
    /\ pc = "commit"
    /\ Len(synced_ids) >= 2
    /\ last_fetch # << >>
    /\ last_fetch[1].again
    /\ batch_floor >= 1

\* C26: whenever Pending records exist and no sync cycle is running, a
\* sync cycle is eventually started, whatever the MQTT connection does.
C26_PendingStartsCycle ==
    (UnsyncedCount > 0 /\ sync_call = << >>) ~> (sync_call # << >>)

\* a sync cycle is started as the second retry in a row or a later one
RepeatedRetry ==
    /\ sync_call = << >>
    /\ sync_call' # << >>
    /\ timer'.retries >= 2

\* C27: after a whole-batch transient failure the retries back off: the
\* delay before a retry is longer than the delay before the retry that
\* failed just before it.
C27_RetryBacksOff ==
    [][ RepeatedRetry => timer'.delay > timer.delay ]_vars

\* the mark-synced step of a sync cycle ends with success
MarkSyncedSucceeds == pc = "save" /\ last_op'.op = "sync_returned"

\* C28: the persisted cursor and the sync_state of the records are changed
\* by nothing but the mark-synced step of a successful sync cycle: an
\* append, a pending fetch, a prune, a failed cycle and a restart leave the
\* sync_state row and the synced flag of every record that is kept as they
\* were.
C28_OnlyMarkSyncedWrites ==
    [][ ~MarkSyncedSucceeds =>
          /\ sync_state' = sync_state
          /\ \A id \in DOMAIN sensor_data \cap DOMAIN sensor_data' :
                 sensor_data'[id].synced = sensor_data[id].synced
      ]_vars

\* a prune has run after a cycle that failed inside its mark-synced step:
\* the records of its batch are Pending and no cursor is persisted
C28_Witness ==
    /\ last_op.op = "prune"
    /\ last_op.after_failed_sync
    /\ Cardinality(mark_ids) >= 2
    /\ \A id \in mark_ids : IsPending(id)
    /\ sync_state = << >>

\* a call of sync_to_cloud that has no remote connection string or finds
\* no Pending record comes to its end
EmptyCycleEnds ==
    /\ pc = "sync"
    /\ pc' = "idle"
    /\ last_op'.op # "restart"
    /\ (~neon_conn_string \/ PendingIds(sensor_data) = {})

\* C29: a sync cycle that runs with no remote connection configured, or
\* that finds no Pending record, returns 0 without a call of the remote
\* store and leaves the records, the cursor and the remote store as they
\* were.
C29_EmptyCycleReturnsEarly ==
    [][ EmptyCycleEnds =>
          /\ last_op' = [op |-> "sync_returned", count |-> 0]
          /\ ~RemoteCall
          /\ UNCHANGED << sensor_data, sqlite_sequence, sync_state,
                          last_synced_id, neon_rows, neon_tx >>
      ]_vars

\* a cycle has returned 0 over a table that holds Synced records only, with
\* a remote connection configured
C29_Witness ==
    /\ pc = "idle"
    /\ last_op = [op |-> "sync_returned", count |-> 0]
    /\ neon_conn_string
    /\ Cardinality(DOMAIN sensor_data) >= 2
    /\ PendingIds(sensor_data) = {}

\* C30: the persisted cursor is a high-water mark: in every reachable
\* state, the states after a crash inside a sync cycle included, every
\* Pending record has an id above the persisted cursor.
C30_CursorHighWaterMark ==
    \A id \in PendingIds(sensor_data) : id > PersistedCursor

\* the process crashed between the UPDATE of a mark-synced step and the end
\* of the step: the batch is committed remotely and Pending locally
C30_Witness ==
    /\ last_op = [op |-> "restart", at |-> "save"]
    /\ Cardinality(crash_batch) >= 2
    /\ crash_batch \subseteq PendingIds(sensor_data)
    /\ \E id \in crash_batch : HasRemoteRow(id)

\* a call of sync_to_cloud returns to its caller
SyncCallEnds ==
    /\ sync_call # << >>
    /\ pc # "idle"
    /\ pc' = "idle"
    /\ last_op'.op \in {"sync_returned", "sync_failed"}

C36_CursorInMemoryIsPersisted ==
    pc = "idle" => last_synced_id = PersistedCursor

\* C32 as stated: no intrusion sequence starts while system_mode is
\* DISARMED, for every interleaving of the main loop with on_message.
C32_StartsOnlyWhileArmed ==
    [][ (main_pc = "decided" /\ main_pc' = "alarm")
          => system_mode = "ARMED" ]_vars

\* C32: the intrusion sequence is started only by a loop iteration whose
\* test found check_motion True and then read system_mode as ARMED; an
\* iteration that reads DISARMED, or finds no motion, starts nothing.
C32_StartsOnlyWhenTestReadArmed ==
    [][ /\ main_pc' \in {"decided", "alarm"} =>
              (last_test'.motion /\ last_test'.mode = "ARMED")
        /\ (main_pc = "poll" /\ last_test' # last_test
               /\ ~(last_test'.motion /\ last_test'.mode = "ARMED"))
              => main_pc' = "poll"
      ]_vars

\* the mode was changed to DISARMED between the test and the start of the
\* sequence, which runs
C32_Witness ==
    /\ main_pc = "alarm"
    /\ system_mode = "DISARMED"
    /\ last_test = [motion |-> TRUE, mode |-> "ARMED"]

\* C33: motion detection is debounced.  Two successive True results of
\* check_motion lie more than motion_debounce seconds apart and two
\* successive True results of PIRWatcher.motion more than debounce_ms
\* milliseconds apart, by the clock readings the functions took, however
\* the polls, the pin changes and the passing of time interleave.
C33_MotionDebounced ==
    /\ Len(true_at["check_motion"]) = 2 =>
          true_at["check_motion"][2] - true_at["check_motion"][1]
              > motion_debounce * 1000
    /\ Len(true_at["PIRWatcher.motion"]) = 2 =>
          true_at["PIRWatcher.motion"][2] - true_at["PIRWatcher.motion"][1]
              > debounce_ms

\* both functions have answered True twice, the pin is HIGH, and the second
\* True of each came at the first poll the debounce allowed
C33_Witness ==
    /\ motion_pin
    /\ Len(true_at["check_motion"]) = 2
    /\ Len(true_at["PIRWatcher.motion"]) = 2
    /\ true_at["check_motion"][2] - true_at["check_motion"][1]
          = motion_debounce * 1000 + ClockStep
    /\ true_at["PIRWatcher.motion"][2] - true_at["PIRWatcher.motion"][1]
          = debounce_ms + ClockStep

\* a call of fetch_motion_logs_by_date has returned a list
LogsReturned ==
    /\ logs_pc = "returned"
    /\ logs_result # << >>
    /\ ~logs_result[1].error

\* C34: fetch_motion_logs_by_date reports, of the date's motion rows in
\* ascending time, the first row and then each row that is at least two
\* minutes after the previously reported one.  So any two entries of the
\* returned list are at least two minutes apart, every row left out lies
\* less than two minutes after a reported one, and the returned list holds
\* the reported rows most recent first.
C34_LogsFiltered ==
    LogsReturned =>
        LET rows == [i \in 1..Len(raw_logs) |-> raw_logs[i].datetime_obj]
            logs == logs_result[1].logs
        IN  /\ \A i \in 1..Len(rows) :
                 i \in reported <=>
                    \/ i = 1
                    \/ LET prior == { j \in reported : j < i }
                       IN  /\ prior # {}
                           /\ rows[i] - rows[SetMax(prior)] >= MIN_INTERVAL
            /\ \A i, j \in reported :
                 i < j => rows[j] - rows[i] >= MIN_INTERVAL
            /\ \A i \in (1..Len(rows)) \ reported :
                 \E j \in reported :
                    /\ j < i
                    /\ rows[i] - rows[j] >= 0
                    /\ rows[i] - rows[j] < MIN_INTERVAL
            /\ Len(logs) = Cardinality(reported)
            /\ \A k \in 1..Len(logs) :
                 \E i \in reported :
                    /\ Cardinality({ j \in reported : j > i }) = k - 1
                    /\ logs[k].timestamp = strftime(rows[i])
            /\ \A k, m \in 1..Len(logs) :
                 k < m => logs[k].timestamp - logs[m].timestamp >= 2 * 60

\* three rows were fetched: the second came just under two minutes after
\* the first and was left out, the third exactly two minutes after the
\* first and was reported, and the list returned has the third in front
C34_Witness ==
    /\ LogsReturned
    /\ Len(raw_logs) = 3
    /\ raw_logs[2].datetime_obj - raw_logs[1].datetime_obj = MIN_INTERVAL - 1
    /\ raw_logs[3].datetime_obj - raw_logs[1].datetime_obj = MIN_INTERVAL
    /\ reported = {1, 3}
    /\ logs_result[1].logs = << [timestamp |-> raw_logs[3].timestamp],
                                [timestamp |-> raw_logs[1].timestamp] >>

\* C35: device_control_api sends no command and answers 400 when the device
\* has no control-feed mapping, or when the device is lcd_text and the text
\* is longer than 32 characters; in every other case it sends exactly one
\* command, to the mapped feed, and reports success exactly when that send
\* succeeded.
C35_ControlAnswers ==
    ctl_request # << >> =>
        LET device == ctl_request[1].device
            given == ctl_request[1].value
            feed_name == FeedsGet("ctrl_" \o device)
            too_long == /\ device = "lcd_text"
                        /\ given.type = "string"
                        /\ Len(given.chars) > MAX_LENGTH
            response == ctl_response[1]
        IN  IF feed_name = "" \/ too_long
            THEN /\ posted = << >>
                 /\ response.status = 400
                 /\ ~response.success
            ELSE /\ Len(posted) = 1
                 /\ posted[1].feed = feed_name
                 /\ response.success <=> posted[1].ok

====
